---- MODULE Spec2Model ----
(***************************************************************************)
(* MemCacheOpenIDStore (openid/store/memcachestore.py): an OpenID consumer *)
(* store kept in memcached.  Associations of one server are threaded into  *)
(* a singly linked list through independent cache keys (a root key holding *)
(* the head handle, one record per handle holding the next handle); nonces *)
(* are presence markers; the signing secret is one well-known key.         *)
(*                                                                         *)
(* Every action below is one memcache call of one caller together with the *)
(* local computation that follows it up to the next memcache call, so that *)
(* callers interleave exactly at the cache operations.                     *)
(*                                                                         *)
(* One server_url is modelled: _assocKey and _rootKey hash the server_url  *)
(* into every key, so the lists of different servers share no cache entry. *)
(***************************************************************************)
EXTENDS Integers, Sequences, FiniteSets, TLC

(***************************************************************************)
(* Bounds                                                                  *)
(***************************************************************************)
NumProcs == 2        \* concurrent callers
MaxCalls == 4        \* calls started in one behaviour
MaxFaults == 1       \* memcache writes/deletes that report failure
MaxEvictions == 1    \* entries evicted or corrupted by the environment

Procs == 1..NumProcs

(***************************************************************************)
(* Values                                                                  *)
(***************************************************************************)
PyNone == "<None>"                        \* Python's None object
Handles == {"h1", "h2", "h3", "None"}     \* association handles (printable strings)
SharedHandles == {"h1", "h2", "None"}     \* the handles concurrent callers contend for
LiveHandles == {"h1", "h2"}               \* the handles of the termination check
Expiries == {50, 100}                     \* assoc.getExpiresIn()
Nonces == {"n1", "n2"}
Secrets == {"k1", "k2"}                   \* outcomes of cryptutil.randomString
FixedKey == "sha1(secret_phrase)"         \* cryptutil.sha1(secret_phrase)
AuthKeyAttempts == 3                      \* for _ in xrange(3)
NoEntry == <<>>                           \* memcache.get of a record key found nothing
Garbage == <<"garbage">>                  \* a record value without the '\n' separator
NoAssoc == [handle |-> PyNone, expires |-> -1]     \* no association: None
NoRecord == [next |-> PyNone, assoc |-> NoAssoc]   \* no record: None
ValueError == [next |-> PyNone, assoc |-> [handle |-> PyNone, expires |-> -2]]

Assocs == [handle : Handles, expires : Expiries]

\* AssociationRecord.__init__: key is never used by the store
AssociationRecord(next, assoc) == [next |-> next, assoc |-> assoc]

\* '%s' % x
Format(x) == IF x = PyNone THEN "None" ELSE x

\* AssociationRecord.serialize: '%s\n%s' % (self.next, self.assoc.serialize()),
\* the string being modelled by its two parts around the first '\n'
serialize(rec) == <<Format(rec.next), rec.assoc>>

\* s.split('\n', 1) has fewer than two parts: deserialize raises ValueError
RaisesValueError(s) == Len(s) < 2

\* AssociationRecord.deserialize for a string that parses
deserialize(s) == AssociationRecord(s[1], s[2])

\* truth value of a handle read from the cache: None and '' are false
Truthy(x) == x # PyNone /\ x # ""

VARIABLES
    root,       \* memcache entry under _rootKey(server_url): PyNone or a handle string
    assocs,     \* memcache entries under _assocKey(server_url, handle)
    nonces,     \* memcache entries under _nonceKey(nonce): PyNone or ''
    authkey,    \* memcache entry under auth_key_key: PyNone or a secret
    auth_key,   \* self.auth_key: PyNone, or the hash of the secret_phrase given
    st,         \* per caller: the call in progress and its local variables
    ncalls,     \* calls started so far
    nfaults,    \* failed writes so far
    nevict,     \* evictions and corruptions so far
    pre,        \* association entries as they were when the current call started
    hist        \* nonce calls completed so far, in order

vars == <<root, assocs, nonces, authkey, auth_key, st, ncalls, nfaults, nevict, pre, hist>>
cache == <<root, assocs, nonces, authkey>>
counters == <<ncalls, nfaults, nevict>>

Idle == [pc |-> "idle", op |-> "", handle |-> "", assoc |-> NoAssoc,
         next |-> PyNone, next_handle |-> PyNone, ptr_rec |-> NoRecord,
         best |-> NoRecord, updates |-> <<>>, nonce |-> "", tries |-> 0,
         new_key |-> PyNone, turns |-> 0, ret |-> <<>>]

Snapshot == [root |-> root, assocs |-> assocs]

Init ==
    /\ root = PyNone
    /\ assocs = [h \in Handles |-> NoEntry]
    /\ nonces = [n \in Nonces |-> PyNone]
    /\ authkey = PyNone
    /\ auth_key = PyNone
    /\ st = [p \in Procs |-> Idle]
    /\ ncalls = 0
    /\ nfaults = 0
    /\ nevict = 0
    /\ pre = Snapshot
    /\ hist = <<>>

(***************************************************************************)
(* Helpers for the actions                                                 *)
(***************************************************************************)
\* a call returns v / raises exception e
Finished(s, r) == [Idle EXCEPT !.pc = "done", !.op = s.op, !.handle = s.handle,
                                !.assoc = s.assoc, !.nonce = s.nonce, !.ret = r]
Returned(s, v) == Finished(s, <<"return", v>>)
Raised(s, e) == Finished(s, <<"raise", e>>)

Set(p, s) == st' = [st EXCEPT ![p] = s]

\* a call can start: the caller has no call in progress ("done" keeps the
\* result of its last call until its next one)
CanCall(p) == st[p].pc \in {"idle", "done"} /\ ncalls < MaxCalls
Called == ncalls' = ncalls + 1

\* outcome of a memcache set or delete: ok, or a reported failure
WriteOutcome(ok) ==
    /\ ok \in BOOLEAN
    /\ ~ok => nfaults < MaxFaults
    /\ nfaults' = IF ok THEN nfaults ELSE nfaults + 1

\* one more turn of a while loop: turns is the parity of the turns taken, so
\* that a turn is a step even when it leaves every local variable as it was
Turn(s) == IF s.pc = "done" THEN s ELSE [s EXCEPT !.turns = 1 - @]

\* memcache.get(self._assocKey(server_url, handle))
Entry(h) == IF h \in Handles THEN assocs[h] ELSE NoEntry

\* _getAssociationRecord up to its memcache.get: the record, None, or (for a
\* value that does not parse) the ValueError caught, whose handler has its
\* memcache.delete still to issue
GetAssociationRecord(h) ==
    IF Entry(h) = NoEntry THEN NoRecord
    ELSE IF RaisesValueError(Entry(h)) THEN ValueError
    ELSE deserialize(Entry(h))

\* the caller is at the memcache.delete of the handler
Prune(s, prunepc) == [s EXCEPT !.pc = prunepc]

(***************************************************************************)
(* storeAssociation                                                        *)
(***************************************************************************)
\* updates.insert(0, (key, rec_s)): the record is written first
StoreUpdatesMutant(recUpdate, updates) == updates \o <<recUpdate>>
StoreUpdatesDropped(recUpdate, updates) == updates
StoreUpdates(recUpdate, updates) == <<recUpdate>> \o updates

\* lines 377-388 once old_rec is known
AfterStoreGetMutant(s, old_rec) ==
    IF old_rec = NoRecord
    THEN [s EXCEPT !.pc = "st_root"]
    ELSE IF old_rec.next = s.handle
    THEN Raised(s, "AssertionError")
    ELSE [s EXCEPT !.pc = "st_set", !.next = old_rec.next,
                   !.updates = StoreUpdates(<<"A", serialize(old_rec)>>, <<>>)]

AfterStoreGetUnlink(s, old_rec) ==
    IF old_rec = NoRecord
    THEN [s EXCEPT !.pc = "st_root"]
    ELSE IF old_rec.next = s.handle
    THEN Raised(s, "AssertionError")
    ELSE [s EXCEPT !.pc = "st_set", !.next = "",
                   !.updates = StoreUpdates(
                       <<"A", serialize(AssociationRecord("", s.assoc))>>, <<>>)]

AfterStoreGetRelink(s, old_rec) ==
    IF old_rec # NoRecord /\ old_rec.next = s.handle
    THEN Raised(s, "AssertionError")
    ELSE [s EXCEPT !.pc = "st_root"]

AfterStoreGet(s, old_rec) ==
    IF old_rec = NoRecord
    THEN [s EXCEPT !.pc = "st_root"]
    ELSE IF old_rec.next = s.handle
    THEN Raised(s, "AssertionError")
    ELSE [s EXCEPT !.pc = "st_set", !.next = old_rec.next,
                   !.updates = StoreUpdates(
                       <<"A", serialize(AssociationRecord(old_rec.next, s.assoc))>>, <<>>)]

\* the call, up to old_rec = self._getAssociationRecord(server_url, assoc.handle)
storeAssociation(p, assoc) ==
    /\ CanCall(p) /\ Called
    /\ LET s == [Idle EXCEPT !.op = "storeAssociation", !.handle = assoc.handle,
                              !.assoc = assoc]
           old_rec == GetAssociationRecord(assoc.handle)
       IN  Set(p, IF old_rec = ValueError THEN Prune(s, "st_prune")
                  ELSE AfterStoreGet(s, old_rec))
    /\ UNCHANGED <<cache, nfaults, nevict>>

\* rec.next = self.memcache.get(root_key), then lines 386-388
StoreGetRoot(p) ==
    /\ st[p].pc = "st_root"
    /\ Set(p, [st[p] EXCEPT !.pc = "st_set", !.next = root,
                            !.updates = StoreUpdates(
                                <<"A", serialize(AssociationRecord(root, st[p].assoc))>>,
                                <<<<"S", st[p].handle>>>>)])
    /\ UNCHANGED <<cache, counters>>

\* one turn of: for k, v in updates: ret = self.memcache.set(k, v)
StoreSet(p) ==
    /\ st[p].pc = "st_set"
    /\ \E ok \in BOOLEAN :
        LET u == Head(st[p].updates) IN
        /\ WriteOutcome(ok)
        /\ assocs' = IF ok /\ u[1] = "A"
                      THEN [assocs EXCEPT ![st[p].handle] = u[2]] ELSE assocs
        /\ root' = IF ok /\ u[1] = "S" THEN u[2] ELSE root
        /\ Set(p, IF ~ok THEN Raised(st[p], "RuntimeError")
                  ELSE IF Tail(st[p].updates) = <<>> THEN Returned(st[p], PyNone)
                  ELSE [st[p] EXCEPT !.updates = Tail(st[p].updates)])
    /\ UNCHANGED <<nonces, authkey, ncalls, nevict>>

(***************************************************************************)
(* getAssociation with a handle: _getAssociationRecord                     *)
(***************************************************************************)
AfterLookupGet(s, rec) ==
    Returned(s, IF rec = NoRecord THEN NoAssoc ELSE rec.assoc)

getAssociation(p, handle) ==
    /\ CanCall(p) /\ Called
    /\ LET s == [Idle EXCEPT !.op = "getAssociation", !.handle = handle]
           rec == GetAssociationRecord(handle)
       IN  Set(p, IF rec = ValueError THEN Prune(s, "lk_prune")
                  ELSE AfterLookupGet(s, rec))
    /\ UNCHANGED <<cache, nfaults, nevict>>

(***************************************************************************)
(* getAssociation without a handle: _scanAssociationRecords                *)
(***************************************************************************)
\* lines 314-317 and getAssociation's rec.assoc
ScanReturn(s) ==
    Returned(s, IF s.best = NoRecord THEN NoAssoc ELSE s.best.assoc)

\* while next_handle:
ScanLoop(s) ==
    IF Truthy(s.next_handle) THEN [s EXCEPT !.pc = "sc_walk"] ELSE ScanReturn(s)

\* if best is None or best[0] <= expires: best = (expires, rec)
BetterMutant(best, rec) == best = NoRecord \/ best.assoc.expires >= rec.assoc.expires
BetterFirst(best, rec) == best = NoRecord \/ best.assoc.expires < rec.assoc.expires
Better(best, rec) == best = NoRecord \/ best.assoc.expires <= rec.assoc.expires

\* lines 304-312 once rec is known
AfterScanGet(s, rec) ==
    IF rec = NoRecord
    THEN ScanReturn(s)
    ELSE ScanLoop([s EXCEPT !.best = IF Better(s.best, rec) THEN rec ELSE s.best,
                            !.next_handle = rec.next])

\* the call, up to first_handle = next_handle = self.memcache.get(root_key)
scanAssociationRecords(p) ==
    /\ CanCall(p) /\ Called
    /\ Set(p, ScanLoop([Idle EXCEPT !.op = "scanAssociationRecords",
                                    !.next_handle = root]))
    /\ UNCHANGED <<cache, nfaults, nevict>>

\* rec = self._getAssociationRecord(server_url, next_handle)
ScanWalk(p) ==
    /\ st[p].pc = "sc_walk"
    /\ LET rec == GetAssociationRecord(st[p].next_handle)
       IN  Set(p, Turn(IF rec = ValueError THEN Prune(st[p], "sc_prune")
                       ELSE AfterScanGet(st[p], rec)))
    /\ UNCHANGED <<cache, counters>>

(***************************************************************************)
(* removeAssociation                                                       *)
(***************************************************************************)
\* lines 424-436 decide the repair; the next memcache call is the repairing
\* set, or the delete of line 440 when nothing is to be repaired
RemoveRepairMutant(s) ==
    IF Truthy(s.next_handle) /\ s.ptr_rec = NoRecord /\ s.next_handle = s.handle
    THEN [s EXCEPT !.pc = "rm_set_root"]
    ELSE [s EXCEPT !.pc = "rm_delete"]

RemoveRepair(s) ==
    IF Truthy(s.next_handle)
    THEN IF s.ptr_rec = NoRecord /\ s.next_handle = s.handle
         THEN [s EXCEPT !.pc = "rm_set_root"]
         ELSE IF s.next_handle = s.handle
         THEN [s EXCEPT !.pc = "rm_set_ptr"]
         ELSE [s EXCEPT !.pc = "rm_delete"]
    ELSE [s EXCEPT !.pc = "rm_delete"]

\* while next_handle and next_handle != handle:
RemoveLoop(s) ==
    IF Truthy(s.next_handle) /\ s.next_handle # s.handle
    THEN [s EXCEPT !.pc = "rm_walk"]
    ELSE RemoveRepair(s)

\* lines 405-406 once rec is known
AfterRemoveGetMutant(s, rec) == [s EXCEPT !.pc = "rm_root", !.next = rec.next]

AfterRemoveGet(s, rec) ==
    IF rec = NoRecord THEN Returned(s, 0)
    ELSE [s EXCEPT !.pc = "rm_root", !.next = rec.next]

\* lines 417-420 once ptr_rec is known
AfterWalkGet(s, ptr_rec) ==
    IF ptr_rec = NoRecord
    THEN RemoveRepair([s EXCEPT !.ptr_rec = NoRecord])
    ELSE RemoveLoop([s EXCEPT !.ptr_rec = ptr_rec, !.next_handle = ptr_rec.next])

\* the call, up to rec = self._getAssociationRecord(server_url, handle)
removeAssociation(p, handle) ==
    /\ CanCall(p) /\ Called
    /\ LET s == [Idle EXCEPT !.op = "removeAssociation", !.handle = handle]
           rec == GetAssociationRecord(handle)
       IN  Set(p, IF rec = ValueError THEN Prune(s, "rm_prune")
                  ELSE AfterRemoveGet(s, rec))
    /\ UNCHANGED <<cache, nfaults, nevict>>

\* next_handle = first_handle = self.memcache.get(root_key)
RemoveGetRoot(p) ==
    /\ st[p].pc = "rm_root"
    /\ Set(p, RemoveLoop([st[p] EXCEPT !.next_handle = root, !.ptr_rec = NoRecord]))
    /\ UNCHANGED <<cache, counters>>

\* ptr_rec = self._getAssociationRecord(server_url, next_handle)
RemoveWalk(p) ==
    /\ st[p].pc = "rm_walk"
    /\ LET ptr_rec == GetAssociationRecord(st[p].next_handle)
       IN  Set(p, Turn(IF ptr_rec = ValueError THEN Prune(st[p], "rm_walk_prune")
                       ELSE AfterWalkGet(st[p], ptr_rec)))
    /\ UNCHANGED <<cache, counters>>

\* ret = self.memcache.set(root_key, rec.next); a failure reaches line 436,
\* whose message names the undefined k
RemoveSetRoot(p) ==
    /\ st[p].pc = "rm_set_root"
    /\ \E ok \in BOOLEAN :
        /\ WriteOutcome(ok)
        /\ root' = IF ok THEN st[p].next ELSE root
        /\ Set(p, IF ok THEN [st[p] EXCEPT !.pc = "rm_delete"]
                  ELSE Raised(st[p], "NameError"))
    /\ UNCHANGED <<assocs, nonces, authkey, ncalls, nevict>>

\* ptr_rec.next = rec.next; ret = self.memcache.set(key, ptr_rec.serialize())
\* under the key of ptr_rec.assoc.handle
RemoveSetPtr(p) ==
    /\ st[p].pc = "rm_set_ptr"
    /\ \E ok \in BOOLEAN :
        /\ WriteOutcome(ok)
        /\ assocs' = IF ok
                      THEN [assocs EXCEPT ![st[p].ptr_rec.assoc.handle] =
                               serialize(AssociationRecord(st[p].next, st[p].ptr_rec.assoc))]
                      ELSE assocs
        /\ Set(p, IF ok THEN [st[p] EXCEPT !.pc = "rm_delete"]
                  ELSE Raised(st[p], "NameError"))
    /\ UNCHANGED <<root, nonces, authkey, ncalls, nevict>>

\* self.memcache.delete(key); a failure reaches line 441, whose format string
\* takes one argument and is given two
RemoveDelete(p) ==
    /\ st[p].pc = "rm_delete"
    /\ \E ok \in BOOLEAN :
        /\ WriteOutcome(ok)
        /\ assocs' = IF ok THEN [assocs EXCEPT ![st[p].handle] = NoEntry] ELSE assocs
        /\ Set(p, IF ok THEN Returned(st[p], 1) ELSE Raised(st[p], "TypeError"))
    /\ UNCHANGED <<root, nonces, authkey, ncalls, nevict>>

(***************************************************************************)
(* _getAssociationRecord, except ValueError: self.memcache.delete(key)     *)
(***************************************************************************)
PrunePcs == {"st_prune", "lk_prune", "sc_prune", "rm_prune", "rm_walk_prune"}

\* the handle whose entry _getAssociationRecord was asked for
PruneHandle(s) ==
    IF s.pc \in {"sc_prune", "rm_walk_prune"} THEN s.next_handle ELSE s.handle

\* return None, continued in the caller of _getAssociationRecord
AfterPruneRaises(s) == Raised(s, "ValueError")

AfterPrune(s) ==
    CASE s.pc = "st_prune" -> AfterStoreGet(s, NoRecord)
      [] s.pc = "lk_prune" -> AfterLookupGet(s, NoRecord)
      [] s.pc = "sc_prune" -> AfterScanGet(s, NoRecord)
      [] s.pc = "rm_prune" -> AfterRemoveGet(s, NoRecord)
      [] s.pc = "rm_walk_prune" -> AfterWalkGet(s, NoRecord)

\* the result of this delete is not looked at
PruneCorrupt(p) ==
    /\ st[p].pc \in PrunePcs
    /\ \E ok \in BOOLEAN :
        /\ WriteOutcome(ok)
        /\ assocs' = IF ok THEN [assocs EXCEPT ![PruneHandle(st[p])] = NoEntry] ELSE assocs
    /\ Set(p, AfterPrune(st[p]))
    /\ UNCHANGED <<root, nonces, authkey, ncalls, nevict>>

(***************************************************************************)
(* The cache service: entries vanish or are damaged without notice         *)
(***************************************************************************)
EvictRoot ==
    /\ nevict < MaxEvictions
    /\ root # PyNone
    /\ root' = PyNone
    /\ nevict' = nevict + 1
    /\ UNCHANGED <<assocs, nonces, authkey, st, ncalls, nfaults>>

EvictRecord(h) ==
    /\ nevict < MaxEvictions
    /\ assocs[h] # NoEntry
    /\ assocs' = [assocs EXCEPT ![h] = NoEntry]
    /\ nevict' = nevict + 1
    /\ UNCHANGED <<root, nonces, authkey, st, ncalls, nfaults>>

CorruptRecord(h) ==
    /\ nevict < MaxEvictions
    /\ assocs[h] \notin {NoEntry, Garbage}
    /\ assocs' = [assocs EXCEPT ![h] = Garbage]
    /\ nevict' = nevict + 1
    /\ UNCHANGED <<root, nonces, authkey, st, ncalls, nfaults>>

(***************************************************************************)
(* The association index: concurrent callers, an unreliable cache          *)
(***************************************************************************)
Aux == UNCHANGED <<pre, hist, auth_key>>

Next ==
    \/ \E p \in Procs, a \in Assocs :
           a.handle \in SharedHandles /\ storeAssociation(p, a) /\ Aux
    \/ \E p \in Procs, h \in SharedHandles : getAssociation(p, h) /\ Aux
    \/ \E p \in Procs : scanAssociationRecords(p) /\ Aux
    \/ \E p \in Procs, h \in SharedHandles : removeAssociation(p, h) /\ Aux
    \/ \E p \in Procs : StoreGetRoot(p) /\ Aux
    \/ \E p \in Procs : StoreSet(p) /\ Aux
    \/ \E p \in Procs : ScanWalk(p) /\ Aux
    \/ \E p \in Procs : RemoveGetRoot(p) /\ Aux
    \/ \E p \in Procs : RemoveWalk(p) /\ Aux
    \/ \E p \in Procs : RemoveSetRoot(p) /\ Aux
    \/ \E p \in Procs : RemoveSetPtr(p) /\ Aux
    \/ \E p \in Procs : RemoveDelete(p) /\ Aux
    \/ \E p \in Procs : PruneCorrupt(p) /\ Aux
    \/ EvictRoot /\ Aux
    \/ \E h \in SharedHandles : EvictRecord(h) /\ Aux
    \/ \E h \in SharedHandles : CorruptRecord(h) /\ Aux

Spec == Init /\ [][Next]_vars

(***************************************************************************)
(* The association index used by one caller on a cache that loses nothing; *)
(* pre is the cache as the call in progress (or the last call) found it    *)
(***************************************************************************)
Caller == CHOOSE p \in Procs : \A q \in Procs : p <= q

CallAux == pre' = Snapshot /\ UNCHANGED <<hist, auth_key>>

SeqNext ==
    \/ \E a \in Assocs : storeAssociation(Caller, a) /\ CallAux
    \/ \E h \in Handles : getAssociation(Caller, h) /\ CallAux
    \/ scanAssociationRecords(Caller) /\ CallAux
    \/ \E h \in Handles : removeAssociation(Caller, h) /\ CallAux
    \/ StoreGetRoot(Caller) /\ Aux
    \/ StoreSet(Caller) /\ Aux
    \/ ScanWalk(Caller) /\ Aux
    \/ RemoveGetRoot(Caller) /\ Aux
    \/ RemoveWalk(Caller) /\ Aux
    \/ RemoveSetRoot(Caller) /\ Aux
    \/ RemoveSetPtr(Caller) /\ Aux
    \/ RemoveDelete(Caller) /\ Aux

SeqSpec == Init /\ [][SeqNext]_vars

\* the one caller goes on with the call it is in
SeqContinue ==
    \/ StoreGetRoot(Caller) /\ Aux
    \/ StoreSet(Caller) /\ Aux
    \/ ScanWalk(Caller) /\ Aux
    \/ RemoveGetRoot(Caller) /\ Aux
    \/ RemoveWalk(Caller) /\ Aux
    \/ RemoveSetRoot(Caller) /\ Aux
    \/ RemoveSetPtr(Caller) /\ Aux
    \/ RemoveDelete(Caller) /\ Aux

SeqLiveSpec == Init /\ [][SeqNext]_vars /\ WF_vars(SeqContinue)

(***************************************************************************)
(* The association index under concurrent callers, each of which goes on   *)
(* with the call it is in: every call is synchronous code of its caller    *)
(***************************************************************************)
Continue(p) ==
    \/ StoreGetRoot(p) /\ Aux
    \/ StoreSet(p) /\ Aux
    \/ ScanWalk(p) /\ Aux
    \/ RemoveGetRoot(p) /\ Aux
    \/ RemoveWalk(p) /\ Aux
    \/ RemoveSetRoot(p) /\ Aux
    \/ RemoveSetPtr(p) /\ Aux
    \/ RemoveDelete(p) /\ Aux
    \/ PruneCorrupt(p) /\ Aux

LiveNext ==
    \/ \E p \in Procs, a \in Assocs :
           a.handle \in LiveHandles /\ storeAssociation(p, a) /\ Aux
    \/ \E p \in Procs, h \in LiveHandles : getAssociation(p, h) /\ Aux
    \/ \E p \in Procs : scanAssociationRecords(p) /\ Aux
    \/ \E p \in Procs, h \in LiveHandles : removeAssociation(p, h) /\ Aux
    \/ \E p \in Procs : Continue(p)
    \/ EvictRoot /\ Aux
    \/ \E h \in LiveHandles : EvictRecord(h) /\ Aux
    \/ \E h \in LiveHandles : CorruptRecord(h) /\ Aux

LiveSpec == Init /\ [][LiveNext]_vars /\ \A p \in Procs : WF_vars(Continue(p))

(***************************************************************************)
(* The association index used by one caller on a cache in which a record   *)
(* may be damaged                                                          *)
(***************************************************************************)
SeqCorruptNext ==
    \/ \E a \in Assocs :
           a.handle \in SharedHandles /\ storeAssociation(Caller, a) /\ CallAux
    \/ \E h \in SharedHandles : getAssociation(Caller, h) /\ CallAux
    \/ scanAssociationRecords(Caller) /\ CallAux
    \/ \E h \in SharedHandles : removeAssociation(Caller, h) /\ CallAux
    \/ StoreGetRoot(Caller) /\ Aux
    \/ StoreSet(Caller) /\ Aux
    \/ ScanWalk(Caller) /\ Aux
    \/ RemoveGetRoot(Caller) /\ Aux
    \/ RemoveWalk(Caller) /\ Aux
    \/ RemoveSetRoot(Caller) /\ Aux
    \/ RemoveSetPtr(Caller) /\ Aux
    \/ RemoveDelete(Caller) /\ Aux
    \/ PruneCorrupt(Caller) /\ Aux
    \/ \E h \in SharedHandles : CorruptRecord(h) /\ Aux

SeqCorruptSpec == Init /\ [][SeqCorruptNext]_vars

(***************************************************************************)
(* Every caller stores one new handle, all at once, on a cache that is     *)
(* empty or holds a list of one record                                     *)
(***************************************************************************)
RaceInit ==
    /\ \E e \in Expiries :
           \/ root = PyNone /\ assocs = [h \in Handles |-> NoEntry]
           \/ /\ root = "h3"
              /\ assocs = [h \in Handles |->
                              IF h = "h3"
                              THEN serialize(AssociationRecord(
                                       PyNone, [handle |-> "h3", expires |-> e]))
                              ELSE NoEntry]
    /\ nonces = [n \in Nonces |-> PyNone]
    /\ authkey = PyNone
    /\ auth_key = PyNone
    /\ st = [p \in Procs |-> Idle]
    /\ ncalls = 0
    /\ nfaults = 0
    /\ nevict = 0
    /\ pre = Snapshot
    /\ hist = <<>>

\* the handle of a is new: it has no record and no other caller stores it
NewHandle(p, a) ==
    /\ st[p].pc = "idle"
    /\ pre.assocs[a.handle] = NoEntry
    /\ \A q \in Procs \ {p} : st[q].handle # a.handle

RaceNext ==
    \/ \E p \in Procs, a \in Assocs :
           NewHandle(p, a) /\ storeAssociation(p, a) /\ Aux
    \/ \E p \in Procs : StoreGetRoot(p) /\ Aux
    \/ \E p \in Procs : StoreSet(p) /\ Aux

RaceSpec == RaceInit /\ [][RaceNext]_vars

(***************************************************************************)
(* storeNonce, useNonce                                                    *)
(***************************************************************************)
Completed(s) == hist' = Append(hist, <<s.op, s.nonce, s.ret[2]>>)

\* self.memcache.set(key, '', self.nonce_timeout): the result is not looked at
storeNonce(p, nonce) ==
    /\ CanCall(p) /\ Called
    /\ \E ok \in BOOLEAN :
        /\ WriteOutcome(ok)
        /\ nonces' = IF ok THEN [nonces EXCEPT ![nonce] = ""] ELSE nonces
    /\ LET s == Returned([Idle EXCEPT !.op = "storeNonce", !.nonce = nonce], PyNone)
       IN Set(p, s) /\ Completed(s)
    /\ UNCHANGED <<root, assocs, authkey, nevict>>

\* val = self.memcache.get(key); if val is None: return 0
useNonce(p, nonce) ==
    /\ CanCall(p) /\ Called
    /\ LET s == [Idle EXCEPT !.op = "useNonce", !.nonce = nonce] IN
       IF nonces[nonce] = PyNone
       THEN Set(p, Returned(s, 0)) /\ Completed(Returned(s, 0))
       ELSE Set(p, [s EXCEPT !.pc = "un_delete"]) /\ UNCHANGED hist
    /\ UNCHANGED <<cache, nfaults, nevict>>

\* return 1, whether or not the marker was still present at the delete
AfterNonceDeleteChecked(s, present) == Returned(s, IF present THEN 1 ELSE 0)
AfterNonceDelete(s, present) == Returned(s, 1)

\* self.memcache.delete(key); return 1: the result of the delete is not looked at
UseNonceDelete(p) ==
    /\ st[p].pc = "un_delete"
    /\ \E ok \in BOOLEAN :
        /\ WriteOutcome(ok)
        /\ nonces' = IF ok THEN [nonces EXCEPT ![st[p].nonce] = PyNone] ELSE nonces
    /\ LET s == AfterNonceDelete(st[p], nonces[st[p].nonce] # PyNone)
       IN  Set(p, s) /\ Completed(s)
    /\ UNCHANGED <<root, assocs, authkey, ncalls, nevict>>

\* the marker outlives nonce_timeout, or is evicted
ExpireNonce(nonce) ==
    /\ nevict < MaxEvictions
    /\ nonces[nonce] # PyNone
    /\ nonces' = [nonces EXCEPT ![nonce] = PyNone]
    /\ nevict' = nevict + 1
    /\ UNCHANGED <<root, assocs, authkey, st, ncalls, nfaults, hist>>

NonceAux == UNCHANGED <<pre, auth_key>>

\* concurrent callers, markers that expire
NonceNext ==
    \/ \E p \in Procs, n \in Nonces : storeNonce(p, n) /\ NonceAux
    \/ \E p \in Procs, n \in Nonces : useNonce(p, n) /\ NonceAux
    \/ \E p \in Procs : UseNonceDelete(p) /\ NonceAux
    \/ \E n \in Nonces : ExpireNonce(n) /\ NonceAux

NonceSpec == Init /\ [][NonceNext]_vars

\* one caller, no expiry
SeqNonceNext ==
    \/ \E n \in Nonces : storeNonce(Caller, n) /\ NonceAux
    \/ \E n \in Nonces : useNonce(Caller, n) /\ NonceAux
    \/ UseNonceDelete(Caller) /\ NonceAux

SeqNonceSpec == Init /\ [][SeqNonceNext]_vars

(***************************************************************************)
(* getAuthKey                                                              *)
(***************************************************************************)
\* lines 189-193 once auth_key is known
AfterAuthGet(s, key) ==
    IF key # PyNone THEN Returned(s, key) ELSE [s EXCEPT !.pc = "ak_set"]

\* the call: the fixed key, or the first auth_key = self.memcache.get(...)
getAuthKey(p) ==
    /\ CanCall(p) /\ Called
    /\ LET s == [Idle EXCEPT !.op = "getAuthKey"] IN
       Set(p, IF auth_key # PyNone THEN Returned(s, auth_key) ELSE AfterAuthGet(s, authkey))
    /\ UNCHANGED <<cache, nfaults, nevict>>

\* was_set = self.memcache.set(self.auth_key_key, new_key): set stores the
\* value whether or not the key holds one
SetAuthKey(new_key, ok) == IF ok THEN new_key ELSE authkey

\* for _ in xrange(3): the turn that follows tries failed turns is the last
LastAttemptMutant(tries) == tries + 1 = AuthKeyAttempts + 1
LastAttempt(tries) == tries + 1 = AuthKeyAttempts

\* new_key = cryptutil.randomString(...); the set; return or loop back, the
\* third failure leaving the loop for the raise of line 202
AuthKeySet(p) ==
    /\ st[p].pc = "ak_set"
    /\ \E new_key \in Secrets, ok \in BOOLEAN :
        /\ authkey' = SetAuthKey(new_key, ok)
        /\ Set(p, IF ok THEN Returned(st[p], new_key)
                  ELSE IF LastAttempt(st[p].tries)
                  THEN Raised(st[p], "RuntimeError")
                  ELSE [st[p] EXCEPT !.pc = "ak_get", !.tries = @ + 1])
    /\ UNCHANGED <<root, assocs, nonces, counters>>

\* auth_key = self.memcache.get(self.auth_key_key) of a later turn
AuthKeyGet(p) ==
    /\ st[p].pc = "ak_get"
    /\ Set(p, AfterAuthGet(st[p], authkey))
    /\ UNCHANGED <<cache, counters>>

SecretInit ==
    /\ root = PyNone
    /\ assocs = [h \in Handles |-> NoEntry]
    /\ nonces = [n \in Nonces |-> PyNone]
    /\ authkey = PyNone
    /\ auth_key \in {PyNone, FixedKey}
    /\ st = [p \in Procs |-> Idle]
    /\ ncalls = 0
    /\ nfaults = 0
    /\ nevict = 0
    /\ pre = Snapshot
    /\ hist = <<>>

\* concurrent callers of getAuthKey on a cache that keeps the key
SecretNext ==
    \/ \E p \in Procs : getAuthKey(p) /\ Aux
    \/ \E p \in Procs : AuthKeySet(p) /\ Aux
    \/ \E p \in Procs : AuthKeyGet(p) /\ Aux

SecretSpec == SecretInit /\ [][SecretNext]_vars

(***************************************************************************)
(* What a reader of the cache finds                                        *)
(***************************************************************************)
\* the value under a record key parses
WellFormed(A, h) == h \in Handles /\ A[h] # NoEntry /\ ~RaisesValueError(A[h])

\* what getAssociation(server_url, handle) returns on the cache as it is
Lookup(h) == IF WellFormed(assocs, h) THEN deserialize(assocs[h]).assoc ELSE NoAssoc

\* the handles whose records the walk of _scanAssociationRecords visits from
\* root pointer r over the entries A, in at most n steps
RECURSIVE Walk(_, _, _)
Walk(r, A, n) ==
    IF n = 0 \/ ~Truthy(r) \/ ~WellFormed(A, r) THEN {}
    ELSE {r} \cup Walk(deserialize(A[r]).next, A, n - 1)

Reachable(r, A) == Walk(r, A, Cardinality(Handles))

\* the first record on that walk whose next is h, PyNone if there is none
RECURSIVE Predecessor(_, _, _, _)
Predecessor(r, A, h, n) ==
    IF n = 0 \/ ~Truthy(r) \/ ~WellFormed(A, r) THEN PyNone
    ELSE IF deserialize(A[r]).next = h THEN r
    ELSE Predecessor(deserialize(A[r]).next, A, h, n - 1)

SetMax(S) == CHOOSE x \in S : \A y \in S : y <= x

\* the caller of the sequential specifications has finished a call of op
Done(op) == st[Caller].pc = "done" /\ st[Caller].op = op
ReturnedValue(op, v) == Done(op) /\ st[Caller].ret = <<"return", v>>

(***************************************************************************)
(* Claims                                                                  *)
(***************************************************************************)
\* C1: with one caller and no eviction, when removeAssociation(h) has
\* returned true, a lookup of h finds nothing and every other handle that
\* the walk from the root pointer reached before the call is still reached.
C1_RemoveKeepsOthers ==
    ReturnedValue("removeAssociation", 1) =>
        /\ Lookup(st[Caller].handle) = NoAssoc
        /\ \A h2 \in Reachable(pre.root, pre.assocs) \ {st[Caller].handle} :
               h2 \in Reachable(root, assocs)

\* an interior record of a three-record list has been removed
C1_Witness ==
    /\ ReturnedValue("removeAssociation", 1)
    /\ Cardinality(Reachable(pre.root, pre.assocs)) = 3
    /\ st[Caller].handle \in Reachable(pre.root, pre.assocs)
    /\ st[Caller].handle # pre.root
    /\ deserialize(pre.assocs[st[Caller].handle]).next \in Reachable(pre.root, pre.assocs)
    /\ "None" \notin Reachable(pre.root, pre.assocs)

\* C2, the value: with one caller and no eviction, the payload a scan returns
\* has the greatest expiresIn of the records reachable from the root pointer
\* (and the scan returns None when none is reachable).
C2_ScanReturnsMaxExpiry ==
    Done("scanAssociationRecords") =>
        LET R == Reachable(root, assocs) IN
        IF R = {} THEN st[Caller].ret = <<"return", NoAssoc>>
        ELSE /\ st[Caller].ret[1] = "return"
             /\ st[Caller].ret[2] \in {Lookup(h) : h \in R}
             /\ st[Caller].ret[2].expires = SetMax({Lookup(h).expires : h \in R})

\* storeAssociation(h1, 100), storeAssociation(h2, 50), then the scan: it
\* returns the h1 payload although the root pointer holds h2
C2_Witness ==
    /\ ReturnedValue("scanAssociationRecords", [handle |-> "h1", expires |-> 100])
    /\ ncalls = 3
    /\ root = "h2"
    /\ Lookup("h2") = [handle |-> "h2", expires |-> 50]
    /\ Reachable(root, assocs) = {"h1", "h2"}

\* C2 (as claimed): with one caller and no eviction, a scan that has started
\* returns, and what it returns is the payload with the greatest expiresIn of
\* the records reachable from the root pointer.
C2_ScanReturnsBest ==
    (st[Caller].op = "scanAssociationRecords" /\ st[Caller].pc = "sc_walk")
        ~> (Done("scanAssociationRecords") /\ C2_ScanReturnsMaxExpiry)

\* C5: with one caller and no eviction, when storeAssociation has returned
\* normally, a lookup of its handle returns the payload it stored.
C5_LookupAfterStore ==
    ReturnedValue("storeAssociation", PyNone) =>
        Lookup(st[Caller].handle) = st[Caller].assoc

\* the store overwrote a record holding another payload
C5_Witness ==
    /\ ReturnedValue("storeAssociation", PyNone)
    /\ WellFormed(pre.assocs, st[Caller].handle)
    /\ deserialize(pre.assocs[st[Caller].handle]).assoc # st[Caller].assoc
    /\ pre.root # st[Caller].handle

\* C6: with one caller and no eviction, when removeAssociation(h) has
\* returned true: if the root pointer held h, it now holds the next handle
\* the record of h had; if h was further down the walk from the root pointer,
\* the root pointer is as before, the record before h on the walk has the
\* next handle h had and its payload as before, and no other record but
\* that of h has changed.
C6_RemoveRelinks ==
    ReturnedValue("removeAssociation", 1) =>
        LET h == st[Caller].handle
            rec == deserialize(pre.assocs[h])
            ptr == Predecessor(pre.root, pre.assocs, h, Cardinality(Handles))
        IN  /\ pre.root = h => root = rec.next
            /\ (pre.root # h /\ h \in Reachable(pre.root, pre.assocs)) =>
                   /\ root = pre.root
                   /\ ptr \in Handles \ {h}
                   /\ assocs[ptr] = <<rec.next, deserialize(pre.assocs[ptr]).assoc>>
                   /\ \A x \in Handles \ {h, ptr} : assocs[x] = pre.assocs[x]

\* an interior record has been removed: the record before it was rewritten
C6_Witness ==
    /\ ReturnedValue("removeAssociation", 1)
    /\ pre.root # st[Caller].handle
    /\ st[Caller].handle \in Reachable(pre.root, pre.assocs)
    /\ WellFormed(pre.assocs, deserialize(pre.assocs[st[Caller].handle]).next)
    /\ "None" \notin Reachable(pre.root, pre.assocs)

\* C8 (as claimed): in a storeAssociation of a handle without a record, the
\* root pointer is written before the record, so the record is never in the
\* cache while the root pointer is still to be written.
C8_RootWrittenFirst ==
    \A p \in Procs :
        (st[p].pc = "st_set" /\ \E i \in 1..Len(st[p].updates) : st[p].updates[i][1] = "S")
            => assocs[st[p].handle] = NoEntry

\* C8 (amended): in a storeAssociation of a handle without a record, the
\* record is written before the root pointer: with one caller and no
\* eviction, whenever the call sets the root pointer to the handle, the
\* cache already holds the new record.
C8_RecordWrittenFirst ==
    [][\A p \in Procs :
          (st[p].pc = "st_set" /\ root' # root) =>
              assocs[st[p].handle] = serialize(AssociationRecord(st[p].next, st[p].assoc))]_vars

\* a new handle has been stored: its record is in the cache, the root pointer
\* holds it, and the record links to the former head
C8_Witness ==
    /\ ReturnedValue("storeAssociation", PyNone)
    /\ ~WellFormed(pre.assocs, st[Caller].handle)
    /\ pre.root \in Handles \ {"None"}
    /\ root = st[Caller].handle
    /\ assocs[st[Caller].handle] = <<pre.root, st[Caller].assoc>>

\* the completed calls on nonce n, in order
NonceHist(n) == SelectSeq(hist, LAMBDA c : c[2] = n)

\* C4: with one caller and no expiry, a useNonce(n) that directly follows a
\* storeNonce(n) returns true, and a useNonce(n) that directly follows a
\* useNonce(n) returns false.
C4_RegisterThenConsumeOnce ==
    \A n \in Nonces :
        LET H == NonceHist(n) IN
        \A i \in 1..(Len(H) - 1) :
            H[i + 1][1] = "useNonce" =>
                H[i + 1][3] = (IF H[i][1] = "storeNonce" THEN 1 ELSE 0)

\* C3: all calls of getAuthKey that have returned a value, with no fixed
\* secret configured and the cache evicting nothing, have returned the same
\* value.
C3_SameSecretForAll ==
    \A p, q \in Procs :
        (/\ st[p].pc = "done" /\ st[p].op = "getAuthKey" /\ st[p].ret[1] = "return"
         /\ st[q].pc = "done" /\ st[q].op = "getAuthKey" /\ st[q].ret[1] = "return")
            => st[p].ret[2] = st[q].ret[2]

\* C9: once the cache holds a secret, no getAuthKey call replaces it.
C9_SecretWrittenOnce ==
    [][authkey # PyNone => authkey' = authkey]_vars

\* caller p starts a call of op in this step
IsCall(p, op) ==
    /\ st[p].pc \in {"idle", "done"}
    /\ ncalls' = ncalls + 1
    /\ st'[p] # st[p]
    /\ st'[p].op = op

\* caller p ends a removeAssociation in this step, at a later memcache call
\* than its first
EndsRemove(p) ==
    /\ st[p].op = "removeAssociation"
    /\ st[p].pc \notin {"idle", "done"}
    /\ st'[p].pc = "done"

\* C7 (as claimed): removeAssociation(h) returns true exactly when the cache
\* held a well-formed record of h when the call started; when it held none,
\* the call returns false and no entry of the cache is written or deleted.
C7_RemoveReportsPresence ==
    [][\A p \in Procs :
          /\ IsCall(p, "removeAssociation") =>
                 /\ <<root, assocs>>' = <<root, assocs>>
                 /\ WellFormed(assocs, st'[p].handle) <=> st'[p].pc \notin {"done", "rm_prune"}
                 /\ st'[p].pc = "done" => st'[p].ret = <<"return", 0>>
          /\ EndsRemove(p) =>
                 IF st[p].pc = "rm_prune"
                 THEN st'[p].ret = <<"return", 0>> /\ <<root, assocs>>' = <<root, assocs>>
                 ELSE st'[p].ret = <<"return", 1>>]_vars

\* C7 (amended): removeAssociation(h) returns false exactly when the cache
\* held no well-formed record of h when the call started; when it held one,
\* the call returns true or, a set or delete of it having failed, raises.
\* A call that returns false writes nothing and deletes at most the entry
\* under the key of h (the malformed one it found there); the root pointer
\* and the other records are as they were.
C7_RemoveReportsAbsence ==
    [][\A p \in Procs :
          /\ IsCall(p, "removeAssociation") =>
                 /\ <<root, assocs>>' = <<root, assocs>>
                 /\ WellFormed(assocs, st'[p].handle) <=> st'[p].pc \notin {"done", "rm_prune"}
                 /\ st'[p].pc = "done" => st'[p].ret = <<"return", 0>>
          /\ EndsRemove(p) =>
                 IF st[p].pc = "rm_prune"
                 THEN /\ st'[p].ret = <<"return", 0>>
                      /\ root' = root
                      /\ \A h \in Handles \ {st[p].handle} : assocs'[h] = assocs[h]
                      /\ assocs'[st[p].handle] \in {assocs[st[p].handle], NoEntry}
                 ELSE st'[p].ret = <<"return", 1>> \/ st'[p].ret[1] = "raise"]_vars

\* a removeAssociation has found a malformed entry under its handle, which it
\* deletes before it returns false
C7_Witness ==
    \E p \in Procs :
        /\ st[p].pc = "rm_prune"
        /\ assocs[st[p].handle] = Garbage
        /\ root = st[p].handle

\* C10: every scan and every removeAssociation that has started returns or
\* raises, whatever the other callers and the cache do meanwhile.
C10_WalksTerminate ==
    \A p \in Procs :
        (st[p].op \in {"scanAssociationRecords", "removeAssociation"}
            /\ st[p].pc \notin {"idle", "done"})
        ~> (st[p].pc = "done")

\* C11: in every state concurrent storeAssociation and removeAssociation
\* calls reach, no record names its own handle as its next handle, and no
\* storeAssociation has raised the AssertionError of line 383.
C11_NoSelfLink ==
    /\ \A h \in Handles :
           WellFormed(assocs, h) => deserialize(assocs[h]).next # h
    /\ \A p \in Procs : st[p].ret # <<"raise", "AssertionError">>

\* the handles of the records the walk of _scanAssociationRecords visits from
\* root pointer r over the entries A, in the order of the walk, in at most n
\* steps
RECURSIVE WalkSeq(_, _, _)
WalkSeq(r, A, n) ==
    IF n = 0 \/ ~Truthy(r) \/ ~WellFormed(A, r) THEN <<>>
    ELSE <<r>> \o WalkSeq(deserialize(A[r]).next, A, n - 1)

\* the positions on the walk from the root pointer whose records have the
\* greatest expiresIn of the walk
BestPositions ==
    LET W == WalkSeq(root, assocs, Cardinality(Handles))
    IN  {i \in 1..Len(W) :
            \A j \in 1..Len(W) : Lookup(W[j]).expires <= Lookup(W[i]).expires}

\* the payload at position i of the walk from the root pointer
PayloadAt(i) == Lookup(WalkSeq(root, assocs, Cardinality(Handles))[i])

\* C12 (as claimed): with one caller and no eviction, a scan that finds
\* several records with the greatest expiresIn returns the first of them on
\* the walk, the one closest to the root pointer.
C12_FirstFoundWins ==
    (Done("scanAssociationRecords") /\ BestPositions # {}) =>
        st[Caller].ret =
            <<"return", PayloadAt(CHOOSE i \in BestPositions :
                                      \A j \in BestPositions : i <= j)>>

\* C12 (amended): with one caller and no eviction, a scan that finds several
\* records with the greatest expiresIn returns the last of them on the walk,
\* the one farthest from the root pointer.
C12_LastFoundWins ==
    (Done("scanAssociationRecords") /\ BestPositions # {}) =>
        st[Caller].ret = <<"return", PayloadAt(SetMax(BestPositions))>>

\* a scan has returned from a walk over three records of which the first and
\* the last have the greatest expiresIn
C12_Witness ==
    /\ Done("scanAssociationRecords")
    /\ Len(WalkSeq(root, assocs, Cardinality(Handles))) = 3
    /\ BestPositions = {1, 3}

\* C13: once a removeAssociation has returned true and the record of its
\* handle is gone, no step of another caller's removeAssociation of a
\* different handle puts a record under that handle again.
C13_RemovedStaysRemoved ==
    [][\A p, q \in Procs :
          (/\ p # q
           /\ st[q].pc = "done" /\ st[q].op = "removeAssociation"
           /\ st[q].ret = <<"return", 1>>
           /\ st[p].op = "removeAssociation" /\ st[p].handle # st[q].handle
           /\ st'[p] # st[p]
           /\ assocs[st[q].handle] = NoEntry)
              => assocs'[st[q].handle] = NoEntry]_vars

\* caller p issues a memcache.set in this step: a turn of storeAssociation's
\* loop over updates, a repairing set of removeAssociation, or storeNonce
IssuesSet(p) ==
    /\ st'[p] # st[p]
    /\ \/ st[p].pc \in {"st_set", "rm_set_root", "rm_set_ptr"}
       \/ st[p].pc \in {"idle", "done"} /\ st'[p].op = "storeNonce"

\* C14: whenever a memcache.set that storeNonce, storeAssociation or
\* removeAssociation issues reports failure, the call ends by raising.
C14_FailedSetRaises ==
    [][\A p \in Procs :
          (IssuesSet(p) /\ nfaults' = nfaults + 1) =>
              (st'[p].pc = "done" /\ st'[p].ret[1] = "raise")]_vars

\* C15 (as claimed): with one caller, no eviction and no failed write, no
\* step of a call sets the root pointer to the handle of a record that was
\* present, and not held by the root pointer, when the call started and is
\* present after the step.
C15_NoWayBackToHead ==
    [][(/\ root' # root
        /\ nfaults' = 0
        /\ root' \in Handles
        /\ pre.root # root'
        /\ WellFormed(pre.assocs, root'))
           => ~WellFormed(assocs', root')]_vars

\* C15 (amended): with one caller and no eviction, the root pointer comes to
\* hold the handle of a record that was present when the call started only
\* in a removeAssociation of the handle the root pointer held, which sets it
\* to the next handle of the record removed; storeAssociation sets the root
\* pointer only to a handle that had no record.
C15_BackToHeadByRemoveOnly ==
    [][(/\ root' # root
        /\ root' \in Handles
        /\ WellFormed(pre.assocs, root'))
           => /\ st[Caller].op = "removeAssociation"
              /\ pre.root = st[Caller].handle
              /\ root' = deserialize(pre.assocs[st[Caller].handle]).next]_vars

\* the head of a list of two records has been removed: the root pointer
\* holds the handle of the record that came second, which is present
C15_Witness ==
    /\ ReturnedValue("removeAssociation", 1)
    /\ nfaults = 0
    /\ pre.root = st[Caller].handle
    /\ root \in Handles \ {"None", st[Caller].handle}
    /\ WellFormed(assocs, root)
    /\ root = deserialize(pre.assocs[st[Caller].handle]).next

\* C16: with one caller and no eviction, a storeAssociation of a handle that
\* had a record when the call started leaves the root pointer and every other
\* record as they were and the handles the walk from the root pointer visits
\* in the same order; when it has returned normally, the record of the handle
\* has the next handle it had and the payload stored.
C16_OverwriteKeepsLinks ==
    (Done("storeAssociation") /\ WellFormed(pre.assocs, st[Caller].handle)) =>
        LET h == st[Caller].handle IN
        /\ root = pre.root
        /\ \A x \in Handles \ {h} : assocs[x] = pre.assocs[x]
        /\ WellFormed(assocs, h)
        /\ deserialize(assocs[h]).next = deserialize(pre.assocs[h]).next
        /\ WalkSeq(root, assocs, Cardinality(Handles))
               = WalkSeq(pre.root, pre.assocs, Cardinality(Handles))
        /\ st[Caller].ret = <<"return", PyNone>> =>
               assocs[h] = <<deserialize(pre.assocs[h]).next, st[Caller].assoc>>

\* the payload of the first of two linked records has been replaced
C16_Witness ==
    /\ ReturnedValue("storeAssociation", PyNone)
    /\ pre.root = st[Caller].handle
    /\ Len(WalkSeq(pre.root, pre.assocs, Cardinality(Handles))) = 2
    /\ "None" \notin Reachable(pre.root, pre.assocs)
    /\ Lookup(st[Caller].handle) # deserialize(pre.assocs[st[Caller].handle]).assoc

\* C17: a useNonce that has read the marker as present returns true, whatever
\* has become of the marker by the time of its delete; so two concurrent
\* useNonce calls of one registered nonce that both read it before either
\* deletes it both return true.
C17_ConsumeDoesNotRecheck ==
    [][\A p \in Procs :
          (st[p].pc = "un_delete" /\ st'[p] # st[p]) =>
              st'[p].ret = <<"return", 1>>]_vars

\* a nonce registered once has been consumed by both callers, with no write
\* failing and no marker expiring
C17_Witness ==
    \E n \in Nonces :
        /\ \A p \in Procs : /\ st[p].pc = "done" /\ st[p].op = "useNonce"
                            /\ st[p].nonce = n /\ st[p].ret = <<"return", 1>>
        /\ Len(SelectSeq(NonceHist(n), LAMBDA c : c[1] = "storeNonce")) = 1
        /\ Len(SelectSeq(NonceHist(n), LAMBDA c : c[1] = "useNonce")) = NumProcs
        /\ nfaults = 0
        /\ nevict = 0

\* C18: every step of a getAuthKey call with no fixed secret obeys the loop
\* of three turns: a read that finds a secret returns it; a write that has
\* stored a secret returns the secret written; the call never returns None;
\* it is never past its third turn; and it raises exactly at the third write
\* that fails, the reads of all three turns having found nothing.
C18_ThreeAttempts ==
    [][\A p \in Procs :
          (st'[p] # st[p] /\ st'[p].op = "getAuthKey" /\ auth_key = PyNone) =>
              /\ st'[p].tries \in 0..2
              /\ (st[p].pc # "ak_set" /\ authkey # PyNone) =>
                     st'[p].ret = <<"return", authkey>>
              /\ (st[p].pc # "ak_set" /\ authkey = PyNone) =>
                     (st'[p].pc = "ak_set" /\ st'[p].tries = st[p].tries)
              /\ (st[p].pc = "ak_set" /\ authkey' # authkey) =>
                     st'[p].ret = <<"return", authkey'>>
              /\ (st[p].pc = "ak_set" /\ st'[p].pc = "ak_get") =>
                     (authkey' = authkey /\ st'[p].tries = st[p].tries + 1)
              /\ st'[p].pc = "done" =>
                     \/ st'[p].ret[1] = "return" /\ st'[p].ret[2] \in Secrets
                     \/ /\ st'[p].ret = <<"raise", "RuntimeError">>
                        /\ st[p].pc = "ak_set" /\ st[p].tries = 2
                        /\ authkey' = authkey]_vars

\* a getAuthKey has raised after three turns, no secret being in the cache
C18_Witness ==
    \E p \in Procs :
        /\ st[p].pc = "done" /\ st[p].op = "getAuthKey"
        /\ st[p].ret = <<"raise", "RuntimeError">>
        /\ authkey = PyNone
        /\ auth_key = PyNone

\* C19: when concurrent storeAssociation calls of different new handles have
\* all returned normally (no write failed, nothing was evicted), a lookup of
\* each handle returns the payload stored for it, and at least one of the
\* handles is reached by the walk from the root pointer.
C19_RacingStoresKeepRecords ==
    (\A p \in Procs : st[p].pc = "done" /\ st[p].ret = <<"return", PyNone>>) =>
        /\ \A p \in Procs : Lookup(st[p].handle) = st[p].assoc
        /\ \E p \in Procs : st[p].handle \in Reachable(root, assocs)

\* two racing stores have returned and the record of one of them is not
\* reached from the root pointer
C19_Witness ==
    /\ \A p \in Procs : st[p].pc = "done" /\ st[p].ret = <<"return", PyNone>>
    /\ \E p \in Procs :
           /\ st[p].handle \notin Reachable(root, assocs)
           /\ Lookup(st[p].handle) = st[p].assoc
    /\ pre.root = "h3"
    /\ "h3" \in Reachable(root, assocs)

\* the cache holds a value under the record key of h that does not parse
Malformed(h) == h \in Handles /\ assocs[h] # NoEntry /\ RaisesValueError(assocs[h])

\* in this step the entry of h is deleted (or, the delete failing, left), and
\* nothing else in the cache changes
PrunesOnly(h) ==
    /\ root' = root
    /\ \A x \in Handles \ {h} : assocs'[x] = assocs[x]
    /\ assocs'[h] = IF nfaults' = nfaults THEN NoEntry ELSE assocs[h]

\* C20: a getAssociation of a handle whose entry is malformed raises
\* nothing: it issues the delete of that entry and returns None.  A scan
\* whose walk comes to a malformed entry raises nothing: it issues the delete
\* of that entry, stops, and returns the best record it had found before
\* (None if it had found none).
C20_MalformedIsPruned ==
    [][\A p \in Procs :
          /\ (IsCall(p, "getAssociation") /\ Malformed(st'[p].handle)) =>
                 st'[p].pc = "lk_prune"
          /\ (st[p].pc = "lk_prune" /\ st'[p] # st[p]) =>
                 /\ st'[p].pc = "done"
                 /\ st'[p].ret = <<"return", NoAssoc>>
                 /\ PrunesOnly(st[p].handle)
          /\ (st[p].pc = "sc_walk" /\ st'[p] # st[p] /\ Malformed(st[p].next_handle)) =>
                 (st'[p].pc = "sc_prune" /\ st'[p].best = st[p].best)
          /\ (st[p].pc = "sc_prune" /\ st'[p] # st[p]) =>
                 /\ st'[p].pc = "done"
                 /\ st'[p].ret = <<"return", IF st[p].best = NoRecord THEN NoAssoc
                                             ELSE st[p].best.assoc>>
                 /\ PrunesOnly(st[p].next_handle)]_vars

\* a scan has come to a malformed entry behind a record that parsed
C20_Witness ==
    /\ st[Caller].pc = "sc_prune"
    /\ st[Caller].best # NoRecord
    /\ st[Caller].best.assoc.handle = root
    /\ st[Caller].next_handle = st[Caller].best.next
    /\ Malformed(st[Caller].next_handle)

====
